---- MODULE Spec2Model ----
(***************************************************************************)
(* Model of the two command-line scripts of Agent-Network-Expander:       *)
(*   scripts/analyze_network_iterative.py  (IterativeAgentAnalyzer, main)  *)
(*   scripts/analyze_network_local.py      (AgentNetworkAnalyzer, main)    *)
(* One run of one script is one behaviour.  The environment (directory,   *)
(* Ollama backend, file system, the reviewer at the terminal) is a        *)
(* nondeterministic choice at every call that reaches it.                 *)
(***************************************************************************)
EXTENDS Integers, Sequences, FiniteSets, TLC

\* ------------------------------------------------------------------ bounds
\* longest model response, in tokens
MaxLen == 5
\* most files discovery finds
MaxFiles == 1

\* ------------------------------------------------- the model's response text
\* A response is a sequence of tokens: brackets, commas, "o" (a JSON object
\* carrying every expected key with string values) and "k" (a JSON object
\* lacking an expected key such as 'name' or 'type').  Outside the bracket span
\* the tokens stand for the prose the model puts around its answer.
Tokens == {"[", "]", ",", "o", "k"}

RECURSIVE SeqsUpTo(_, _)
SeqsUpTo(S, n) ==
    IF n = 0 THEN {<<>>}
    ELSE LET shorter == SeqsUpTo(S, n - 1)
         IN  shorter \cup {Append(s, x) : s \in {t \in shorter : Len(t) = n - 1}, x \in S}

Texts == SeqsUpTo(Tokens, MaxLen)

\* str.find: 0-based index of the first occurrence, -1 when absent
find(t, c) ==
    IF \E p \in 1..Len(t) : t[p] = c
    THEN (CHOOSE p \in 1..Len(t) : t[p] = c /\ \A q \in 1..(p - 1) : t[q] # c) - 1
    ELSE -1

\* str.rfind: 0-based index of the last occurrence, -1 when absent
rfind(t, c) ==
    IF \E p \in 1..Len(t) : t[p] = c
    THEN (CHOOSE p \in 1..Len(t) : t[p] = c /\ \A q \in (p + 1)..Len(t) : t[q] # c) - 1
    ELSE -1

\* the Python slice t[start:end] for 0 <= start < end <= len(t)
Slice(t, start, end) == SubSeq(t, start + 1, end)

\* What a parsed array element is to the code that indexes it: a dict with
\* every key, a dict lacking one, or a nested list (not a dict at all).
ElemKind(tok) ==
    IF tok = "o" THEN "dict" ELSE IF tok = "k" THEN "dict_nokey" ELSE "list"

NoParse == [next |-> 0, elems |-> <<>>]

\* json.loads, by recursive descent: ParseValue reads one value at position p
\* and returns the position after it (0: JSONDecodeError) and, for an array,
\* the kinds of its elements.
RECURSIVE ParseValue(_, _), ParseItems(_, _, _)
ParseValue(s, p) ==
    IF p > Len(s) THEN NoParse
    ELSE IF s[p] \in {"o", "k"} THEN [next |-> p + 1, elems |-> <<>>]
    ELSE IF s[p] = "[" THEN
        IF p + 1 <= Len(s) /\ s[p + 1] = "]"
        THEN [next |-> p + 2, elems |-> <<>>]
        ELSE ParseItems(s, p + 1, <<>>)
    ELSE NoParse

ParseItems(s, p, acc) ==
    LET v == ParseValue(s, p)
    IN  IF v.next = 0 \/ v.next > Len(s) THEN NoParse
        ELSE IF s[v.next] = "]"
             THEN [next |-> v.next + 1, elems |-> Append(acc, ElemKind(s[p]))]
        ELSE IF s[v.next] = ","
             THEN ParseItems(s, v.next + 1, Append(acc, ElemKind(s[p])))
        ELSE NoParse

\* json.loads(json_text): the whole text must be one value ("Extra data"
\* otherwise)
json_loads(s) ==
    LET r == ParseValue(s, 1)
    IN  IF r.next = Len(s) + 1 THEN [ok |-> TRUE, val |-> r.elems]
        ELSE [ok |-> FALSE, val |-> <<>>]

\* the span cut at the first ']' (find) instead of the last (rfind)
ParseResponse_FirstClose(t) ==
    LET start == find(t, "[")
        end   == find(t, "]") + 1
    IN  IF start >= 0 /\ end > start
        THEN LET j == json_loads(Slice(t, start, end))
             IN  IF j.ok THEN [suggestions |-> j.val, msg |-> "none"]
                 ELSE [suggestions |-> <<>>, msg |-> "error_parsing_json"]
        ELSE [suggestions |-> <<>>, msg |-> "warning_could_not_parse"]

\* The body of generate_agent_suggestions once ollama.generate has returned
\* response_text: the list returned and the message printed.
ParseResponse(t) ==
    LET start == find(t, "[")
        end   == rfind(t, "]") + 1
    IN  IF start >= 0 /\ end > start
        THEN LET j == json_loads(Slice(t, start, end))
             IN  IF j.ok THEN [suggestions |-> j.val, msg |-> "none"]
                 ELSE [suggestions |-> <<>>, msg |-> "error_parsing_json"]
        ELSE [suggestions |-> <<>>, msg |-> "warning_could_not_parse"]

\* ------------------------------------------------------------ file reading
max_size == 100000

\* what discovery can find: a file of some size whose stat() and read_text()
\* each succeed or raise
FileSizes == {max_size, max_size + 1}
Files == [size : FileSizes, stat_ok : BOOLEAN, readable : BOOLEAN]

\* read_file_safe with the size test written >=
read_file_safe_AtLeast(f) ==
    IF ~f.stat_ok THEN "error_reading_file"
    ELSE IF f.size >= max_size THEN "file_too_large"
    ELSE IF ~f.readable THEN "error_reading_file"
    ELSE "content"

\* read_file_safe: the string returned, by kind
read_file_safe(f) ==
    IF ~f.stat_ok THEN "error_reading_file"
    ELSE IF f.size > max_size THEN "file_too_large"
    ELSE IF ~f.readable THEN "error_reading_file"
    ELSE "content"

\* build_context: the sampled files' contents, as read_file_safe returns them
build_context(agent_files) ==
    [n \in 1..Len(agent_files) |-> read_file_safe(agent_files[n])]

\* ---------------------------------------------------------- terminal input
\* what the reviewer can type at "Your choice (y/n/s/q): "
Lines ==
    { <<"y">>, <<"Y">>, <<" ", "y", " ">>, <<"y", "e", "s">>,
      <<"n">>, <<"N", "O">>, <<"s">>, <<"s", "k", "i", "p">>,
      <<"q">>, <<"Q", "U", "I", "T">>, <<"s", "t", "o", "p">>,
      <<>>, <<" ">>, <<"x">>, <<"y", " ", "y">> }

lower(c) ==
    CASE c = "Y" -> "y" [] c = "N" -> "n" [] c = "O" -> "o" [] c = "Q" -> "q"
      [] c = "U" -> "u" [] c = "I" -> "i" [] c = "T" -> "t" [] c = "A" -> "a"
      [] c = "B" -> "b" [] OTHER -> c

RECURSIVE strip(_)
strip(l) ==
    IF l = <<>> THEN l
    ELSE IF Head(l) = " " THEN strip(Tail(l))
    ELSE IF l[Len(l)] = " " THEN strip(SubSeq(l, 1, Len(l) - 1))
    ELSE l

\* input(...).strip().lower()
Choice(l) == [n \in 1..Len(strip(l)) |-> lower(strip(l)[n])]

\* get_user_decision with an empty line taken as the default "skip"
DecisionOf_EmptyIsSkip(choice) ==
    IF choice \in {<<"y">>, <<"y", "e", "s">>} THEN "yes"
    ELSE IF choice \in {<<"n">>, <<"n", "o">>} THEN "no"
    ELSE IF choice \in {<<>>, <<"s">>, <<"s", "k", "i", "p">>} THEN "skip"
    ELSE IF choice \in {<<"q">>, <<"q", "u", "i", "t">>, <<"s", "t", "o", "p">>} THEN "stop"
    ELSE "invalid"

\* get_user_decision: the value returned for a choice, "invalid" when the
\* loop prompts again
DecisionOf(choice) ==
    IF choice \in {<<"y">>, <<"y", "e", "s">>} THEN "yes"
    ELSE IF choice \in {<<"n">>, <<"n", "o">>} THEN "no"
    ELSE IF choice \in {<<"s">>, <<"s", "k", "i", "p">>} THEN "skip"
    ELSE IF choice \in {<<"q">>, <<"q", "u", "i", "t">>, <<"s", "t", "o", "p">>} THEN "stop"
    ELSE "invalid"

\* ------------------------------------------------------------------- state
VARIABLES
    model_names,     \* main: the names ollama.list() gave the model check, <<>> before
    script,          \* which script runs: "iterative" or "local"
    pc,              \* where the run is
    exit_code,       \* "none" while running, then the process's exit status
    uncaught,        \* the exception that left main uncaught, "none" otherwise
    console,         \* the kinds of message printed so far
    generate_prompts,\* args.prompts (local script)
    total,           \* number of files discovery found
    context,         \* build_context's result
    generate_log,    \* the ollama.generate calls made, in order
    response_text,   \* the response of the suggestions call
    suggestions,     \* the parsed list, by element kind
    i,               \* the review loop's index (1-based)
    presented,       \* the positions present_suggestion was invoked for, in order
    decided,         \* the positions get_user_decision was invoked for, in order
    decision,        \* what get_user_decision returned last
    decisions,       \* self.decisions: positions of the agents, per bucket
    prompt_content,  \* generate_system_prompt's result for the current agent
    prompt_files,    \* prompt files written by save_agent_prompt
    summary_file,    \* findings/analysis-summary.md
    analysis,        \* analyze_with_ollama's result (local script)
    findings_file,   \* findings/agent-network-analysis.md (local script)
    batch_prompts,   \* prompt files written by generate_system_prompts
    write_failed,    \* the writes that failed
    line,            \* the line input() returned last
    save_summary_calls, \* invocations of save_summary
    fn,              \* the function applied on its own, "none" in a run of a script
    agent,           \* save_agent_prompt's agent: its name and type
    output_file,     \* the path save_agent_prompt writes
    file,            \* read_file_safe's file
    read_result,     \* what read_file_safe returned
    tree,            \* the directory entries discover_agents walks
    found_files      \* what discover_agents returned

vars == << model_names, script, pc, exit_code, uncaught, console, generate_prompts, total,
           context, generate_log, response_text, suggestions, i, presented,
           decided, decision, decisions, prompt_content, prompt_files,
           summary_file, analysis, findings_file, batch_prompts, write_failed,
           line, save_summary_calls, fn, agent, output_file, file, read_result,
           tree, found_files >>

fnVars == << fn, agent, output_file, file, read_result, tree, found_files >>

Buckets == {"accepted", "rejected", "skipped"}

NoSummary == [written |-> FALSE,
              counts |-> [b \in Buckets |-> 0],
              sections |-> <<>>]

\* the state of a process that has called nothing yet
Fresh ==
    /\ model_names = <<>>
    /\ exit_code = "none"
    /\ uncaught = "none"
    /\ console = {}
    /\ generate_prompts \in (IF script = "local" THEN BOOLEAN ELSE {FALSE})
    /\ total = 0
    /\ context = <<>>
    /\ generate_log = <<>>
    /\ response_text = <<>>
    /\ suggestions = <<>>
    /\ i = 0
    /\ presented = <<>>
    /\ decided = <<>>
    /\ decision = "none"
    /\ decisions = [b \in Buckets |-> <<>>]
    /\ prompt_content = "none"
    /\ prompt_files = {}
    /\ summary_file = NoSummary
    /\ analysis = "none"
    /\ findings_file = "none"
    /\ batch_prompts = 0
    /\ write_failed = {}
    /\ line = <<>>
    /\ save_summary_calls = 0

\* the keys of discover_agents' agent_files dictionary
FileTypes == {"json", "yaml", "md", "txt", "other"}

\* agent_files as discover_agents creates it
NoFiles == [b \in FileTypes |-> <<>>]

\* the variables of the functions applied on their own, at rest
FnIdle ==
    /\ agent = [name |-> <<>>, type |-> "action", priority |-> "high"]
    /\ output_file = [dir |-> <<>>, filename |-> <<>>]
    /\ file = [size |-> 0, stat_ok |-> TRUE, readable |-> TRUE]
    /\ read_result = "none"
    /\ tree = {}
    /\ found_files = NoFiles

\* __init__ of either analyzer, and the process before main's first check
Init ==
    /\ script \in {"iterative", "local"}
    /\ pc = "main"
    /\ Fresh
    /\ fn = "none"
    /\ FnIdle

\* sys.exit(code), or main returning (code "0")
Exit(code) ==
    /\ pc' = "exited"
    /\ exit_code' = code

\* an exception nobody catches: traceback, exit status 1
Raise(exc) ==
    /\ pc' = "exited"
    /\ exit_code' = "1"
    /\ uncaught' = exc

startupVars == << generate_prompts, total, context, generate_log >>
reviewVars  == << response_text, suggestions, i, presented, decided, decision,
                  decisions, prompt_content, prompt_files, summary_file >>
localVars   == << analysis, findings_file, batch_prompts >>

\* ------------------------------------------------------ main, both scripts
\* main: directory.exists() and directory.is_dir()
CheckDirectory ==
    /\ pc = "main"
    /\ \E d \in {"missing", "not_a_directory", "directory"} :
         IF d = "directory"
         THEN /\ pc' = "check_ollama"
              /\ UNCHANGED << exit_code, console >>
         ELSE /\ console' = console \cup {d}
              /\ Exit("1")
    /\ UNCHANGED << fnVars, model_names, line, save_summary_calls,
                    script, uncaught, startupVars, reviewVars, localVars, write_failed >>

\* the startup check only warning when ollama.list raises
CheckOllama_WarnOnly ==
    /\ pc = "check_ollama"
    /\ \E reachable \in BOOLEAN :
         /\ pc' = "check_model"
         /\ console' = IF reachable THEN console ELSE console \cup {"cannot_connect"}
         /\ UNCHANGED exit_code
    /\ UNCHANGED << fnVars, model_names, line, save_summary_calls,
                    script, uncaught, startupVars, reviewVars, localVars, write_failed >>

\* main: try: ollama.list() except: ... sys.exit(1)
CheckOllama ==
    /\ pc = "check_ollama"
    /\ \E reachable \in BOOLEAN :
         IF reachable
         THEN /\ pc' = "check_model"
              /\ UNCHANGED << exit_code, console >>
         ELSE /\ console' = console \cup {"cannot_connect"}
              /\ Exit("1")
    /\ UNCHANGED << fnVars, model_names, line, save_summary_calls,
                    script, uncaught, startupVars, reviewVars, localVars, write_failed >>

\* args.model, the --model option
args_model == << "l", "3" >>

\* model lists ollama.list() can give
ModelLists ==
    { <<>>,
      << << "L", "3" >>, << "l" >> >>,
      << << "x" >>, << "l", "3", ":", "8" >> >> }

\* Python's "a in b" on strings
IsSubstring(a, b) ==
    \E k \in 0..(Len(b) - Len(a)) : SubSeq(b, k + 1, k + Len(a)) = a

\* any(args.model in name for name in model_names)
model_available(names) ==
    \E n \in DOMAIN names : IsSubstring(args_model, names[n])

\* main: the second ollama.list() and the search for args.model
CheckModel ==
    /\ pc = "check_model"
    /\ \/ \* the listing raises: except Exception, a warning, the run goes on
          /\ console' = console \cup {"could_not_verify_model"}
          /\ pc' = "run"
          /\ model_names' = model_names
       \/ \E names \in ModelLists :
            /\ model_names' = names
            /\ IF model_available(names)
               THEN /\ pc' = "run"
                    /\ console' = console
               ELSE /\ pc' = "continue_anyway"
                    /\ console' = console \cup {"model_not_found"}
    /\ UNCHANGED << fnVars, line, save_summary_calls,
                    script, exit_code, uncaught, startupVars, reviewVars, localVars,
                    write_failed >>

\* what can be typed at "Continue anyway? (y/N): "
Answers == { <<"y">>, <<"Y">>, <<" ", "y">>, <<"y", "e", "s">>, <<"n">>, <<>> }

\* main accepting any answer that starts with y
ContinueAnyway_AnyYes ==
    /\ pc = "continue_anyway"
    /\ \E response \in Answers :
         /\ line' = response
         /\ IF response # <<>> /\ lower(response[1]) = "y"
            THEN /\ pc' = "run"
                 /\ UNCHANGED exit_code
            ELSE Exit("1")
    /\ UNCHANGED << fnVars, model_names, save_summary_calls,
                    script, uncaught, console, startupVars, reviewVars, localVars,
                    write_failed >>

\* main: response.lower() != 'y' exits
ContinueAnyway ==
    /\ pc = "continue_anyway"
    /\ \E response \in Answers :
         /\ line' = response
         /\ IF [n \in 1..Len(response) |-> lower(response[n])] = <<"y">>
            THEN /\ pc' = "run"
                 /\ UNCHANGED exit_code
            ELSE Exit("1")
    /\ UNCHANGED << fnVars, model_names, save_summary_calls,
                    script, uncaught, console, startupVars, reviewVars, localVars,
                    write_failed >>

\* run_iterative calling save_summary before the total == 0 return
Discover_SummaryFirst ==
    /\ pc = "run"
    /\ \E agent_files \in SeqsUpTo(Files, MaxFiles) :
         /\ total' = Len(agent_files)
         /\ IF Len(agent_files) = 0
            THEN /\ console' = console \cup {"no_files_found"}
                 /\ context' = context
                 /\ summary_file' = [NoSummary EXCEPT !.written = TRUE]
                 /\ save_summary_calls' = save_summary_calls + 1
                 /\ Exit("0")
            ELSE /\ context' = build_context(agent_files)
                 /\ pc' = IF script = "iterative" THEN "suggest" ELSE "analyze"
                 /\ UNCHANGED << exit_code, console, summary_file, save_summary_calls >>
    /\ UNCHANGED << fnVars, model_names, line,
                    script, uncaught, generate_prompts, generate_log, response_text,
                    suggestions, i, presented, decided, decision, decisions,
                    prompt_content, prompt_files, localVars, write_failed >>

\* run_iterative / run up to the context: discover_agents, the total == 0
\* return, build_context.  (With at most MaxFiles files the sampling limits
\* of build_context, 2 per type and 5 in all, leave no file out.)
Discover ==
    /\ pc = "run"
    /\ \E agent_files \in SeqsUpTo(Files, MaxFiles) :
         /\ total' = Len(agent_files)
         /\ IF Len(agent_files) = 0
            THEN /\ console' = console \cup {"no_files_found"}
                 /\ context' = context
                 /\ Exit("0")
            ELSE /\ context' = build_context(agent_files)
                 /\ pc' = IF script = "iterative" THEN "suggest" ELSE "analyze"
                 /\ UNCHANGED << exit_code, console >>
    /\ UNCHANGED << fnVars, model_names, line, save_summary_calls,
                    script, uncaught, generate_prompts, generate_log, reviewVars,
                    localVars, write_failed >>

\* -------------------------------------------------------- iterative script
Call(site, arg, ok) == [site |-> site, arg |-> arg, ok |-> ok]

\* generate_agent_suggestions and the "if not suggestions: return" after it
GenerateAgentSuggestions ==
    /\ pc = "suggest"
    /\ \/ \* ollama.generate raises: except Exception, return []
          /\ generate_log' = Append(generate_log, Call("suggestions", 0, FALSE))
          /\ response_text' = <<>>
          /\ suggestions' = <<>>
          /\ console' = console \cup {"error_during_analysis", "could_not_generate_suggestions"}
          /\ i' = i
          /\ Exit("0")
       \/ \E t \in Texts :
            LET r == ParseResponse(t)
            IN  /\ generate_log' = Append(generate_log, Call("suggestions", 0, TRUE))
                /\ response_text' = t
                /\ suggestions' = r.suggestions
                /\ IF r.suggestions = <<>>
                   THEN /\ console' = (console \cup {"could_not_generate_suggestions"})
                                        \cup (IF r.msg = "none" THEN {} ELSE {r.msg})
                        /\ i' = i
                        /\ Exit("0")
                   ELSE /\ i' = 1
                        /\ pc' = "present"
                        /\ UNCHANGED << exit_code, console >>
    /\ UNCHANGED << fnVars, model_names, line, save_summary_calls,
                    script, uncaught, generate_prompts, total, context, presented,
                    decided, decision, decisions, prompt_content, prompt_files,
                    summary_file, localVars, write_failed >>

\* present_suggestion(agent, i, len(suggestions)): agent['name'] ... raise
\* KeyError on a dict lacking the key, TypeError on an element that is no dict
PresentSuggestion ==
    /\ pc = "present"
    /\ presented' = Append(presented, i)
    /\ IF suggestions[i] = "dict"
       THEN /\ pc' = "get_user_decision"
            /\ UNCHANGED << exit_code, uncaught >>
       ELSE Raise(IF suggestions[i] = "dict_nokey" THEN "KeyError" ELSE "TypeError")
    /\ UNCHANGED << fnVars, model_names, line, save_summary_calls,
                    script, console, startupVars, response_text, suggestions, i,
                    decided, decision, decisions, prompt_content, prompt_files,
                    summary_file, localVars, write_failed >>

\* get_user_decision is entered: the menu is printed
GetUserDecision ==
    /\ pc = "get_user_decision"
    /\ decided' = Append(decided, i)
    /\ pc' = "input"
    /\ UNCHANGED << fnVars, model_names, line, save_summary_calls,
                    script, exit_code, uncaught, console, startupVars, response_text,
                    suggestions, i, presented, decision, decisions, prompt_content,
                    prompt_files, summary_file, localVars, write_failed >>

\* one turn of get_user_decision's while True: read a line, return or ask again
Input ==
    /\ pc = "input"
    /\ \E l \in Lines :
         LET d == DecisionOf(Choice(l))
         IN  /\ line' = l
             /\ IF d = "invalid"
                THEN /\ console' = console \cup {"invalid_choice"}
                     /\ UNCHANGED << pc, decision >>
                ELSE /\ decision' = d
                     /\ pc' = "dispatch"
                     /\ UNCHANGED console
    /\ UNCHANGED << fnVars, model_names, save_summary_calls,
                    script, exit_code, uncaught, startupVars, response_text,
                    suggestions, i, presented, decided, decisions, prompt_content,
                    prompt_files, summary_file, localVars, write_failed >>

\* the loop with an off-by-one end: the last suggestion is never reviewed
NextSuggestion_OffByOne ==
    /\ i' = i + 1
    /\ pc' = IF i + 1 < Len(suggestions) THEN "present" ELSE "save_summary"

\* the for loop moves on to the next suggestion, or ends
NextSuggestion ==
    /\ i' = i + 1
    /\ pc' = IF i < Len(suggestions) THEN "present" ELSE "save_summary"

\* generate_system_prompt retrying once when ollama.generate raises
GenerateSystemPrompt_Retry ==
    /\ pc = "dispatch"
    /\ decision = "yes"
    /\ \E ok \in BOOLEAN :
         IF ok
         THEN /\ generate_log' = Append(generate_log, Call("system_prompt", i, TRUE))
              /\ prompt_content' = "prompt"
         ELSE \E again \in BOOLEAN :
              /\ generate_log' = generate_log \o << Call("system_prompt", i, FALSE),
                                                   Call("system_prompt", i, again) >>
              /\ prompt_content' = IF again THEN "prompt" ELSE "error_generating_prompt"
    /\ pc' = "save_agent_prompt"
    /\ UNCHANGED << fnVars, model_names, line, save_summary_calls,
                    script, exit_code, uncaught, console, generate_prompts, total,
                    context, response_text, suggestions, i, presented, decided,
                    decision, decisions, prompt_files, summary_file, localVars,
                    write_failed >>

\* decision == 'yes': generate_system_prompt (its except returns the error text)
GenerateSystemPrompt ==
    /\ pc = "dispatch"
    /\ decision = "yes"
    /\ \E ok \in BOOLEAN :
         /\ generate_log' = Append(generate_log, Call("system_prompt", i, ok))
         /\ prompt_content' = IF ok THEN "prompt" ELSE "error_generating_prompt"
    /\ pc' = "save_agent_prompt"
    /\ UNCHANGED << fnVars, model_names, line, save_summary_calls,
                    script, exit_code, uncaught, console, generate_prompts, total,
                    context, response_text, suggestions, i, presented, decided,
                    decision, decisions, prompt_files, summary_file, localVars,
                    write_failed >>

\* self.findings_dir = Path("findings"): the output paths are relative
findings_dir_is_absolute == FALSE
\* Path.cwd() is absolute
cwd_is_absolute == TRUE
\* PurePath.relative_to raises ValueError when one path is relative and the
\* other absolute
relative_to_raises(path_is_absolute, other_is_absolute) ==
    path_is_absolute # other_is_absolute

\* decision == 'yes', continued: save_agent_prompt, the "Saved to" line with
\* output_file.relative_to(Path.cwd()), then decisions['accepted'].append
SaveAgentPrompt ==
    /\ pc = "save_agent_prompt"
    /\ \E written \in BOOLEAN :
         IF ~written
         THEN /\ write_failed' = write_failed \cup {"prompt"}
              /\ Raise("OSError")
              /\ UNCHANGED << prompt_files, decisions, i >>
         ELSE /\ prompt_files' = prompt_files \cup {[agent |-> i, content |-> prompt_content]}
              /\ write_failed' = write_failed
              /\ IF relative_to_raises(findings_dir_is_absolute, cwd_is_absolute)
                 THEN /\ Raise("ValueError")
                      /\ UNCHANGED << decisions, i >>
                 ELSE /\ decisions' = [decisions EXCEPT !.accepted = Append(@, i)]
                      /\ NextSuggestion
                      /\ UNCHANGED << exit_code, uncaught >>
    /\ UNCHANGED << fnVars, model_names, line, save_summary_calls,
                    script, console, startupVars, response_text, suggestions,
                    presented, decided, decision, prompt_content, summary_file,
                    localVars >>

\* 'no' handled with insert(0, agent) instead of append
Reject_Prepend ==
    /\ pc = "dispatch"
    /\ decision = "no"
    /\ decisions' = [decisions EXCEPT !.rejected = << i >> \o @]
    /\ NextSuggestion
    /\ UNCHANGED << fnVars, model_names, line, save_summary_calls,
                    script, exit_code, uncaught, console, startupVars, response_text,
                    suggestions, presented, decided, decision, prompt_content,
                    prompt_files, summary_file, localVars, write_failed >>

\* decision == 'no'
Reject ==
    /\ pc = "dispatch"
    /\ decision = "no"
    /\ decisions' = [decisions EXCEPT !.rejected = Append(@, i)]
    /\ NextSuggestion
    /\ UNCHANGED << fnVars, model_names, line, save_summary_calls,
                    script, exit_code, uncaught, console, startupVars, response_text,
                    suggestions, presented, decided, decision, prompt_content,
                    prompt_files, summary_file, localVars, write_failed >>

\* decision == 'skip'
Skip ==
    /\ pc = "dispatch"
    /\ decision = "skip"
    /\ decisions' = [decisions EXCEPT !.skipped = Append(@, i)]
    /\ NextSuggestion
    /\ UNCHANGED << fnVars, model_names, line, save_summary_calls,
                    script, exit_code, uncaught, console, startupVars, response_text,
                    suggestions, presented, decided, decision, prompt_content,
                    prompt_files, summary_file, localVars, write_failed >>

\* 'stop' handled with continue instead of break
Stop_Continue ==
    /\ pc = "dispatch"
    /\ decision = "stop"
    /\ console' = console \cup {"stopping_review"}
    /\ NextSuggestion
    /\ UNCHANGED << fnVars, model_names, line, save_summary_calls,
                    script, exit_code, uncaught, startupVars, response_text,
                    suggestions, presented, decided, decision, decisions,
                    prompt_content, prompt_files, summary_file, localVars,
                    write_failed >>

\* decision == 'stop': break
Stop ==
    /\ pc = "dispatch"
    /\ decision = "stop"
    /\ console' = console \cup {"stopping_review"}
    /\ pc' = "save_summary"
    /\ UNCHANGED << fnVars, model_names, line, save_summary_calls,
                    script, exit_code, uncaught, startupVars, response_text,
                    suggestions, i, presented, decided, decision, decisions,
                    prompt_content, prompt_files, summary_file, localVars,
                    write_failed >>

\* one section of the summary file, left out when the bucket is empty
Section(d, b) == IF d[b] # <<>> THEN << [title |-> b, agents |-> d[b]] >> ELSE <<>>

\* save_summary without the "if self.decisions[...]" tests: every section written
SummaryContent_AllSections(d) ==
    [written  |-> TRUE,
     counts   |-> [b \in Buckets |-> Len(d[b])],
     sections |-> << [title |-> "accepted", agents |-> d["accepted"]],
                     [title |-> "rejected", agents |-> d["rejected"]],
                     [title |-> "skipped", agents |-> d["skipped"]] >>]

\* the content save_summary writes: the three counts, then the sections
SummaryContent(d) ==
    [written  |-> TRUE,
     counts   |-> [b \in Buckets |-> Len(d[b])],
     sections |-> Section(d, "accepted") \o Section(d, "rejected") \o Section(d, "skipped")]

\* save_summary's write wrapped in "except: pass"
SaveSummary_Swallow ==
    /\ pc = "save_summary"
    /\ save_summary_calls' = save_summary_calls + 1
    /\ \E written \in BOOLEAN :
         /\ summary_file' = IF written THEN SummaryContent(decisions) ELSE summary_file
         /\ write_failed' = IF written THEN write_failed ELSE write_failed \cup {"summary"}
         /\ console' = console \cup {"summary_saved", "analysis_complete"}
         /\ Exit("0")
         /\ UNCHANGED uncaught
    /\ UNCHANGED << fnVars, model_names, line,
                    script, startupVars, response_text, suggestions, i, presented,
                    decided, decision, decisions, prompt_content, prompt_files,
                    localVars >>

\* the end of run_iterative: save_summary, "Summary saved", "Analysis
\* Complete!", the final counts; main returns
SaveSummary ==
    /\ pc = "save_summary"
    /\ save_summary_calls' = save_summary_calls + 1
    /\ \E written \in BOOLEAN :
         IF written
         THEN /\ summary_file' = SummaryContent(decisions)
              /\ console' = console \cup {"summary_saved", "analysis_complete"}
              /\ Exit("0")
              /\ UNCHANGED << uncaught, write_failed >>
         ELSE /\ write_failed' = write_failed \cup {"summary"}
              /\ Raise("OSError")
              /\ UNCHANGED << summary_file, console >>
    /\ UNCHANGED << fnVars, model_names, line,
                    script, startupVars, response_text, suggestions, i, presented,
                    decided, decision, decisions, prompt_content, prompt_files,
                    localVars >>

\* ------------------------------------------------------------ local script
\* analyze_with_ollama: its except returns the error text as the analysis
AnalyzeWithOllama ==
    /\ pc = "analyze"
    /\ \E ok \in BOOLEAN :
         /\ generate_log' = Append(generate_log, Call("analysis", 0, ok))
         /\ analysis' = IF ok THEN "analysis" ELSE "error_during_analysis"
    /\ pc' = "save_findings"
    /\ UNCHANGED << fnVars, model_names, line, save_summary_calls,
                    script, exit_code, uncaught, console, generate_prompts, total,
                    context, reviewVars, findings_file, batch_prompts, write_failed >>

\* the end of run: "Analysis Complete!", "Review findings at"; main returns
Complete ==
    /\ console' = console \cup {"analysis_complete"}
    /\ Exit("0")

\* save_findings, then "generate_prompts or self.offer_system_prompts()" up
\* to the menu offer_system_prompts prints
SaveFindings ==
    /\ pc = "save_findings"
    /\ \E written \in BOOLEAN :
         IF written
         THEN /\ findings_file' = analysis
              /\ pc' = IF generate_prompts THEN "generate_system_prompts"
                       ELSE "offer_system_prompts"
              /\ console' = IF generate_prompts THEN console
                            ELSE console \cup {"offer_menu"}
              /\ UNCHANGED << exit_code, uncaught, write_failed >>
         ELSE /\ write_failed' = write_failed \cup {"findings"}
              /\ Raise("OSError")
              /\ UNCHANGED << findings_file, console >>
    /\ UNCHANGED << fnVars, model_names, line, save_summary_calls,
                    script, startupVars, reviewVars, analysis, batch_prompts >>

\* what can be typed at "Enter choice (1-3): "
OfferLines == { <<"1">>, <<" ", "1">>, <<"2">>, <<"3">>, <<>>, <<"y">>, <<"1", "2">> }

\* offer_system_prompts returning True on "3" as well
OfferSystemPrompts_ThreeIsYes ==
    /\ pc = "offer_system_prompts"
    /\ \E l \in OfferLines :
         LET choice == strip(l)
         IN  /\ line' = l
             /\ IF choice \in { <<"1">>, <<"3">> }
                THEN /\ pc' = "generate_system_prompts"
                     /\ UNCHANGED << exit_code, console >>
                ELSE IF choice = <<"2">>
                THEN Complete
                ELSE /\ console' = console \cup {"invalid_choice"}
                     /\ UNCHANGED << pc, exit_code >>
    /\ UNCHANGED << fnVars, model_names, save_summary_calls,
                    script, uncaught, startupVars, reviewVars, localVars, write_failed >>

\* one turn of offer_system_prompts' while True
OfferSystemPrompts ==
    /\ pc = "offer_system_prompts"
    /\ \E l \in OfferLines :
         LET choice == strip(l)
         IN  /\ line' = l
             /\ IF choice = <<"1">>
                THEN /\ pc' = "generate_system_prompts"
                     /\ UNCHANGED << exit_code, console >>
                ELSE IF choice \in { <<"2">>, <<"3">> }
                THEN Complete
                ELSE /\ console' = console \cup {"invalid_choice"}
                     /\ UNCHANGED << pc, exit_code >>
    /\ UNCHANGED << fnVars, model_names, save_summary_calls,
                    script, uncaught, startupVars, reviewVars, localVars, write_failed >>

\* most prompts one response of the model is split into
MaxPrompts == 2

\* generate_system_prompts: "Generating system prompts...", the two mkdir
\* outside the try, then inside it
\* ollama.generate and one file per agent prompt; whatever raises inside is
\* printed.  Then the end of run.
GenerateSystemPrompts ==
    /\ pc = "generate_system_prompts"
    /\ \/ \* mkdir raises
          /\ write_failed' = write_failed \cup {"mkdir"}
          /\ console' = console \cup {"generating_system_prompts"}
          /\ Raise("OSError")
          /\ UNCHANGED << generate_log, batch_prompts >>
       \/ \* ollama.generate raises
          /\ generate_log' = Append(generate_log, Call("system_prompts", 0, FALSE))
          /\ console' = console \cup {"generating_system_prompts",
                                       "error_generating_system_prompts", "analysis_complete"}
          /\ Exit("0")
          /\ UNCHANGED << uncaught, batch_prompts, write_failed >>
       \/ \* k prompts in the response, the first w of them written
          \E k \in 0..MaxPrompts : \E w \in 0..k :
            /\ generate_log' = Append(generate_log, Call("system_prompts", 0, TRUE))
            /\ batch_prompts' = w
            /\ write_failed' = IF w < k THEN write_failed \cup {"batch_prompt"}
                               ELSE write_failed
            /\ console' = (console \cup {"generating_system_prompts", "analysis_complete"})
                            \cup (IF w < k THEN {"error_generating_system_prompts"}
                                  ELSE {"system_prompts_saved"})
            /\ Exit("0")
            /\ UNCHANGED uncaught
    /\ UNCHANGED << fnVars, model_names, line, save_summary_calls,
                    script, generate_prompts, total, context, reviewVars, analysis,
                    findings_file >>

\* ----------------------------------------------------------- specification
Next ==
    \/ CheckDirectory
    \/ CheckOllama
    \/ CheckModel
    \/ ContinueAnyway
    \/ Discover
    \/ GenerateAgentSuggestions
    \/ PresentSuggestion
    \/ GetUserDecision
    \/ Input
    \/ GenerateSystemPrompt
    \/ SaveAgentPrompt
    \/ Reject
    \/ Skip
    \/ Stop
    \/ SaveSummary
    \/ AnalyzeWithOllama
    \/ SaveFindings
    \/ OfferSystemPrompts
    \/ GenerateSystemPrompts

Spec == Init /\ [][Next]_vars

\* ------------------------------------------- the functions, on their own
\* the variables a function called on its own leaves alone
mainVars == << model_names, script, exit_code, console, startupVars, reviewVars,
               localVars, write_failed, line, save_summary_calls >>

\* longest agent name
MaxName == 3

\* characters of an agent name: letters of both cases, a digit, the two
\* characters replaced by '-', '-' itself, and two that are dropped
NameChars == {"A", "b", "7", " ", "_", "-", "/", "."}

\* a key the model's JSON left out of the agent
KeyMissing == "(no key)"

AgentTypes == {"orchestration", "Orchestration", "action", "utility", KeyMissing}

Agents == [name : SeqsUpTo(NameChars, MaxName), type : AgentTypes,
           priority : {"high", KeyMissing}]

\* str.isalnum on one character
isalnum(c) == c \in {"A", "a", "B", "b", "7"}

\* save_agent_prompt: self.system_prompts_dir / "orchestration" or "action"
target_dir(a) ==
    << "findings", "system-prompts",
       IF a.type = "orchestration" THEN "orchestration" ELSE "action" >>

\* the filename with '_' dropped by the filter instead of replaced
filename_KeepSpacesOnly(a) ==
    LET lowered  == [n \in DOMAIN a.name |-> lower(a.name[n])]
        spaces   == [n \in DOMAIN lowered |-> IF lowered[n] = " " THEN "-" ELSE lowered[n]]
        Kept(c)  == isalnum(c) \/ c = "-"
    IN  SelectSeq(spaces, Kept) \o << ".md" >>

\* save_agent_prompt: name.lower().replace(' ', '-').replace('_', '-'), the
\* isalnum-or-'-' filter, and the ".md" ending
filename(a) ==
    LET lowered  == [n \in DOMAIN a.name |-> lower(a.name[n])]
        spaces   == [n \in DOMAIN lowered |-> IF lowered[n] = " " THEN "-" ELSE lowered[n]]
        replaced == [n \in DOMAIN spaces |-> IF spaces[n] = "_" THEN "-" ELSE spaces[n]]
        Kept(c)  == isalnum(c) \/ c = "-"
    IN  SelectSeq(replaced, Kept) \o << ".md" >>

\* save_agent_prompt called with agent: agent['type'] raises KeyError before
\* anything is created; agent['priority'] raises it once the file is open
SaveAgentPromptCall ==
    /\ pc = "call"
    /\ fn = "save_agent_prompt"
    /\ IF agent.type = KeyMissing
       THEN /\ pc' = "raised"
            /\ uncaught' = "KeyError"
            /\ output_file' = output_file
       ELSE /\ output_file' = [dir |-> target_dir(agent), filename |-> filename(agent)]
            /\ IF agent.priority = KeyMissing
               THEN pc' = "raised" /\ uncaught' = "KeyError"
               ELSE pc' = "returned" /\ uncaught' = uncaught
    /\ UNCHANGED << mainVars, fn, agent, file, read_result, tree, found_files >>

\* sizes on both sides of max_size
CallFileSizes == {0, max_size - 1, max_size, max_size + 1}

\* read_file_safe called with file_path
ReadFileSafeCall ==
    /\ pc = "call"
    /\ fn = "read_file_safe"
    /\ read_result' = read_file_safe(file)
    /\ pc' = "returned"
    /\ UNCHANGED << mainVars, uncaught, fn, agent, output_file, file, tree, found_files >>

\* most entries put in the directory
MaxEntries == 2

File(parents, name) == [parents |-> parents, name |-> name, is_file |-> TRUE]
Dir(parents, name)  == [parents |-> parents, name |-> name, is_file |-> FALSE]

\* what can be in the directory: the path below it as directory names and a
\* file name cut at the dots and around the words the patterns look for
Entries ==
    { File(<<>>, << "my_", "agent", ".", "json" >>),
      File(<<>>, << "agent", ".", "JSON" >>),
      File(<<>>, << "x", ".", "agent", ".", "YAML" >>),
      File(<<>>, << "x", ".", "agent", "." >>),
      File(<<>>, << "agent", ".", "yml" >>),
      File(<<>>, << "prompt", ".", "md" >>),
      File(<<>>, << "system", ".", "MD" >>),
      File(<<>>, << "x_", "system", "_y", ".", "md" >>),
      File(<<>>, << "readme", ".", "md" >>),
      File(<<>>, << "notes", ".", "txt" >>),
      File(<< "agents" >>, << "notes", ".", "txt" >>),
      File(<< "agents" >>, << "my_", "agent", ".", "json" >>),
      File(<< "agents", "sub" >>, << "a", ".", "py" >>),
      File(<< "src", "prompts" >>, << "p", ".", "TXT" >>),
      File(<< ".claude" >>, << "settings" >>),
      Dir(<<>>, << "dir_", "agent", ".", "json" >>),
      Dir(<< "prompts" >>, << "empty" >>) }

Trees == {t \in SUBSET Entries : Cardinality(t) <= MaxEntries}

\* the directories on the way to an entry
Ancestors(t) ==
    UNION { { Dir(SubSeq(e.parents, 1, k - 1), << e.parents[k] >>) :
                k \in 1..Len(e.parents) } : e \in t }

RECURSIVE SetToSeq(_)
SetToSeq(S) ==
    IF S = {} THEN <<>>
    ELSE LET x == CHOOSE x \in S : TRUE IN << x >> \o SetToSeq(S \ {x})

\* the orders a directory walk can list the entries in
Listings(t) ==
    { SetToSeq(Ancestors(t)) \o q :
        q \in { q \in [1..Cardinality(t) -> t] :
                  \A m, n \in 1..Cardinality(t) : q[m] = q[n] => m = n } }

\* discover_agents: patterns; "under" is the directory of a "dir/**/*" pattern
patterns ==
    << [under |-> "", name |-> << "*", "agent", "*", ".", "json" >>],
       [under |-> "", name |-> << "*", "agent", "*", ".", "yaml" >>],
       [under |-> "", name |-> << "*", "agent", "*", ".", "yml" >>],
       [under |-> "", name |-> << "*", ".", "agent", ".", "*" >>],
       [under |-> "", name |-> << "*", "prompt", "*", ".", "md" >>],
       [under |-> "", name |-> << "*", "system", "*", ".", "md" >>],
       [under |-> "agents",  name |-> << "*" >>],
       [under |-> "prompts", name |-> << "*" >>],
       [under |-> ".claude", name |-> << "*" >>] >>

\* fnmatch of one name against one pattern: '*' takes any run, also none
RECURSIVE Match(_, _)
Match(p, name) ==
    IF p = <<>> THEN name = <<>>
    ELSE IF Head(p) = "*"
         THEN Match(Tail(p), name) \/ (name # <<>> /\ Match(p, Tail(name)))
         ELSE name # <<>> /\ Head(name) = Head(p) /\ Match(Tail(p), Tail(name))

\* directory.rglob(pattern) yields e: the name matches at any depth, and for
\* "dir/**/*" some directory above e is called dir
PathMatch(pattern, e) ==
    /\ Match(pattern.name, e.name)
    /\ pattern.under # "" => \E k \in DOMAIN e.parents : e.parents[k] = pattern.under

\* PurePath.suffix: from the last dot, unless the dot starts or ends the name
suffix(name) ==
    LET dots == {k \in DOMAIN name : name[k] = "."}
        last == CHOOSE k \in dots : \A j \in dots : j <= k
    IN  IF dots = {} THEN <<>>
        ELSE IF last = 1 \/ last = Len(name) THEN <<>>
        ELSE SubSeq(name, last, Len(name))

\* str.lower on a piece of a file name
lower_piece(t) ==
    CASE t = "JSON" -> "json" [] t = "YAML" -> "yaml" [] t = "MD" -> "md"
      [] t = "TXT" -> "txt" [] OTHER -> t

\* file_path.suffix.lower().lstrip('.')
ext(name) ==
    LET lowered == [n \in DOMAIN suffix(name) |-> lower_piece(suffix(name)[n])]
    IN  IF lowered # <<>> /\ Head(lowered) = "." THEN Tail(lowered) ELSE lowered

\* "if ext in agent_files ... else 'other'"
key_of(name) ==
    IF Len(ext(name)) = 1 /\ ext(name)[1] \in FileTypes \ {"other"}
    THEN ext(name)[1] ELSE "other"

\* discover_agents without the is_file test
is_file_Always(e) == TRUE

\* file_path.is_file()
is_file(e) == e.is_file

\* discover_agents' loops from pattern k on, over one listing of the tree
RECURSIVE Collect(_, _, _)
Collect(k, listing, agent_files) ==
    IF k > Len(patterns) THEN agent_files
    ELSE LET Hit(e) == PathMatch(patterns[k], e) /\ is_file(e)
             hits   == SelectSeq(listing, Hit)
         IN  Collect(k + 1, listing,
                     [b \in FileTypes |->
                        LET Here(e) == key_of(e.name) = b
                        IN  agent_files[b] \o SelectSeq(hits, Here)])

discover_agents(listing) == Collect(1, listing, NoFiles)

\* discover_agents called with directory
DiscoverAgentsCall ==
    /\ pc = "call"
    /\ fn = "discover_agents"
    /\ \E listing \in Listings(tree) : found_files' = discover_agents(listing)
    /\ pc' = "returned"
    /\ UNCHANGED << mainVars, uncaught, fn, agent, output_file, file, read_result, tree >>

\* one function, one argument
InitFn ==
    /\ pc = "call"
    /\ fn \in {"save_agent_prompt", "read_file_safe", "discover_agents"}
    /\ script \in (IF fn = "save_agent_prompt" THEN {"iterative"}
                   ELSE {"iterative", "local"})
    /\ Fresh
    /\ agent \in (IF fn = "save_agent_prompt" THEN Agents
                  ELSE {[name |-> <<>>, type |-> "action", priority |-> "high"]})
    /\ file \in (IF fn = "read_file_safe"
                 THEN [size : CallFileSizes, stat_ok : BOOLEAN, readable : BOOLEAN]
                 ELSE {[size |-> 0, stat_ok |-> TRUE, readable |-> TRUE]})
    /\ tree \in (IF fn = "discover_agents" THEN Trees ELSE {{}})
    /\ output_file = [dir |-> <<>>, filename |-> <<>>]
    /\ read_result = "none"
    /\ found_files = NoFiles

NextFn ==
    \/ SaveAgentPromptCall
    \/ ReadFileSafeCall
    \/ DiscoverAgentsCall

SpecFn == InitFn /\ [][NextFn]_vars

\* ------------------------------------------------------------------ claims
Range(q) == {q[n] : n \in DOMAIN q}

\* the positions recorded in some bucket
Recorded == UNION {Range(decisions[b]) : b \in Buckets}

BucketOf(d) ==
    IF d = "yes" THEN "accepted" ELSE IF d = "no" THEN "rejected" ELSE "skipped"

\* C2: once a 'yes', 'no' or 'skip' decision has been handled, the suggestion
\* is at the end of that decision's bucket and the other two buckets are as
\* they were (stated for the steps in which no write fails).
C2_DecisionAppends ==
    [][ ( /\ pc \in {"dispatch", "save_agent_prompt"}
          /\ decision \in {"yes", "no", "skip"}
          /\ pc' \notin {"dispatch", "save_agent_prompt"}
          /\ write_failed' = write_failed )
        => decisions' = [decisions EXCEPT ![BucketOf(decision)] = Append(@, i)] ]_vars

\* C3: after get_user_decision has returned 'stop' for suggestion i nothing
\* more is presented or decided, no bucket and no prompt file changes, and
\* the next step of the run is save_summary.
C3_StopHalts ==
    [][ decision = "stop" =>
          /\ presented' = presented
          /\ decided' = decided
          /\ decisions' = decisions
          /\ prompt_files' = prompt_files
          /\ i' = i
          /\ presented[Len(presented)] = i
          /\ pc \in {"dispatch", "save_summary", "exited"}
          /\ pc = "dispatch" => pc' = "save_summary"
          /\ pc = "save_summary" => pc' = "exited" ]_vars

C3_Witness ==
    /\ decision = "stop"
    /\ Len(suggestions) = 2
    /\ i = 1
    /\ presented = << 1 >>
    /\ summary_file.written
    /\ decisions.rejected = <<>> /\ decisions.skipped = <<>>

\* C4: the summary file states the three buckets' lengths, has one section
\* per non-empty bucket and none for an empty one, and each section lists
\* its bucket's agents in the order they were recorded.
C4_SummaryMatchesBuckets ==
    summary_file.written =>
        /\ \A b \in Buckets :
             /\ summary_file.counts[b] = Len(decisions[b])
             /\ (decisions[b] = <<>>) =
                  (\A n \in DOMAIN summary_file.sections :
                       summary_file.sections[n].title # b)
        /\ \A n \in DOMAIN summary_file.sections :
             /\ summary_file.sections[n].agents = decisions[summary_file.sections[n].title]
             /\ \A m \in DOMAIN summary_file.sections :
                  m # n => summary_file.sections[m].title # summary_file.sections[n].title

C4_Witness ==
    /\ summary_file.written
    /\ Len(decisions.rejected) = 1
    /\ Len(decisions.skipped) = 1
    /\ decisions.accepted = <<>>
    /\ Len(summary_file.sections) = 2

Increasing(q) == \A m, n \in DOMAIN q : m < n => q[m] < q[n]

\* C5: suggestions are presented in the order of the array, each one after
\* every earlier one has been decided and recorded, and every bucket lists
\* its agents by increasing position.
C5_ReviewedInOrder ==
    /\ \A n \in DOMAIN presented : presented[n] = n
    /\ \A n \in DOMAIN decided : decided[n] = n
    /\ \A n \in DOMAIN presented :
         \A p \in 1..(presented[n] - 1) : p \in Range(decided) /\ p \in Recorded
    /\ \A b \in Buckets : Increasing(decisions[b])
    /\ pc \in {"present", "get_user_decision", "input", "dispatch", "save_agent_prompt"}
         => Recorded = 1..(i - 1)

C5_Witness ==
    /\ presented = << 1, 2 >>
    /\ decisions.rejected = << 1, 2 >>

FailedCalls == {n \in DOMAIN generate_log : ~generate_log[n].ok}

\* C6, as stated: whenever the backend could not be reached, by ollama.list
\* or by ollama.generate, the process ends with a non-zero exit status.
C6_UnreachableIsFatal ==
    (pc = "exited" /\ ("cannot_connect" \in console \/ FailedCalls # {}))
        => exit_code = "1"

\* C6, amended: the startup ollama.list failing is fatal (exit status 1,
\* before discovery and before any generate call); a failing ollama.generate
\* is caught where it is called: the iterative script ends without a review,
\* the local script keeps the error text as its analysis, and the exit status
\* is 0 unless an exception of another origin ends the run.
C6_StartupFatalGenerateCaught ==
    /\ "cannot_connect" \in console =>
          /\ pc = "exited" /\ exit_code = "1"
          /\ generate_log = <<>> /\ total = 0 /\ context = <<>>
          /\ findings_file = "none" /\ ~summary_file.written
    /\ \A n \in FailedCalls :
          /\ generate_log[n].site = "suggestions" =>
                /\ pc = "exited" /\ exit_code = "0" /\ uncaught = "none"
                /\ suggestions = <<>> /\ presented = <<>>
          /\ generate_log[n].site = "analysis" =>
                /\ analysis = "error_during_analysis"
                /\ findings_file \in {"none", "error_during_analysis"}
          /\ generate_log[n].site = "system_prompt" =>
                prompt_content = "error_generating_prompt"
          /\ generate_log[n].site = "system_prompts" =>
                "error_generating_system_prompts" \in console
    /\ (pc = "exited" /\ FailedCalls # {} /\ uncaught = "none") => exit_code = "0"

C6_Witness ==
    /\ script = "local"
    /\ pc = "exited"
    /\ exit_code = "0"
    /\ generate_log # <<>>
    /\ ~generate_log[1].ok
    /\ findings_file = "error_during_analysis"
    /\ "analysis_complete" \in console

\* the JSON values of at most MaxLen tokens, built up from the grammar:
\* an object, or a bracketed comma-separated list of values
RECURSIVE CommaLists(_, _)
CommaLists(V, n) ==
    IF n = 0 THEN {<<>>}
    ELSE IF n = 1 THEN V
    ELSE LET shorter == CommaLists(V, n - 1)
         IN  shorter \cup
             {l \o <<",">> \o v : l \in {x \in shorter : Len(x) + 4 <= MaxLen}, v \in V}

RECURSIVE JsonValuesOfDepth(_)
JsonValuesOfDepth(d) ==
    IF d = 0 THEN { <<"o">>, <<"k">> }
    ELSE LET V == JsonValuesOfDepth(d - 1)
         IN  V \cup { <<"[">> \o l \o <<"]">> :
                        l \in {x \in {<<>>} \cup CommaLists(V, MaxLen) : Len(x) + 2 <= MaxLen} }

JsonValues == JsonValuesOfDepth(MaxLen)

\* the text has a '[' before a ']'
HasSpan(t) == \E p, q \in DOMAIN t : p < q /\ t[p] = "[" /\ t[q] = "]"

\* from the first '[' to the last ']'
Span(t) ==
    SubSeq(t, CHOOSE p \in DOMAIN t : t[p] = "[" /\ \A r \in 1..(p - 1) : t[r] # "[",
              CHOOSE q \in DOMAIN t : t[q] = "]" /\ \A r \in (q + 1)..Len(t) : t[r] # "]")

ResponseReceived ==
    /\ script = "iterative"
    /\ generate_log # <<>>
    /\ generate_log[1].ok

\* C7: a response without a '[' ... ']' span, or whose span is not valid
\* JSON, gives the empty suggestion list, no exception, and a run that ends
\* normally without presenting anything.
C7_ParseFailureIsEmpty ==
    (ResponseReceived /\ (~HasSpan(response_text) \/ Span(response_text) \notin JsonValues))
        => /\ suggestions = <<>>
           /\ presented = <<>> /\ decided = <<>>
           /\ uncaught = "none"
           /\ pc = "exited" /\ exit_code = "0"
           /\ ~summary_file.written
           /\ "could_not_generate_suggestions" \in console

C7_Witness ==
    /\ ResponseReceived
    /\ HasSpan(response_text)
    /\ Span(response_text) \notin JsonValues
    /\ "error_parsing_json" \in console
    /\ pc = "exited" /\ exit_code = "0"

\* C8, as stated: a run invokes generate at most once.
C8_AtMostOneGenerate == Len(generate_log) <= 1

\* C8, amended: a run makes one generate call for the suggestions or the
\* analysis, then at most one per accepted suggestion for its system prompt
\* (iterative) or at most one for the system prompts (local); no call is
\* made twice, failed or not.
C8_NoCallTwice ==
    /\ \A m, n \in DOMAIN generate_log :
         m # n => << generate_log[m].site, generate_log[m].arg >>
                    # << generate_log[n].site, generate_log[n].arg >>
    /\ \A n \in DOMAIN generate_log :
         /\ (n = 1) = (generate_log[n].site \in {"suggestions", "analysis"})
         /\ generate_log[n].site \in {"suggestions", "system_prompt"} => script = "iterative"
         /\ generate_log[n].site \in {"analysis", "system_prompts"} => script = "local"
         /\ generate_log[n].site = "system_prompt" => generate_log[n].arg \in Range(decided)

C8_Witness ==
    /\ pc = "exited"
    /\ Len(generate_log) = 2
    /\ generate_log[1].ok
    /\ ~generate_log[2].ok

\* C9: no exception raised by an unreachable backend, by malformed model
\* output (also a well-formed array whose elements lack expected keys) or
\* by an oversized or unreadable file leaves main uncaught.
C9_NothingUncaught == uncaught \notin {"KeyError", "TypeError"}

\* C10: when save_agent_prompt, save_summary or save_findings fails to
\* write, the run ends on the error (traceback, exit status 1) without its
\* completion banner; a prompt file generate_system_prompts fails to write
\* is reported on the console.
C10_WriteFailureReported ==
    /\ (write_failed \cap {"prompt", "summary", "findings"}) # {} =>
          /\ pc = "exited"
          /\ exit_code = "1"
          /\ uncaught = "OSError"
          /\ "analysis_complete" \notin console
          /\ "summary_saved" \notin console
    /\ "summary" \in write_failed => ~summary_file.written
    /\ "findings" \in write_failed => findings_file = "none"
    /\ "prompt" \in write_failed => \A f \in prompt_files : f.agent # i
    /\ "batch_prompt" \in write_failed => "error_generating_system_prompts" \in console

C10_Witness ==
    /\ "summary" \in write_failed
    /\ pc = "exited"
    /\ decisions.rejected # <<>>

ValidInputs ==
    { <<"y">>, <<"y", "e", "s">>, <<"n">>, <<"n", "o">>, <<"s">>,
      <<"s", "k", "i", "p">>, <<"q">>, <<"q", "u", "i", "t">>,
      <<"s", "t", "o", "p">> }

\* C15: get_user_decision hands the loop only yes, no, skip or stop; a line
\* that is not one of the nine accepted inputs after trimming and lowercasing
\* asks again and leaves the buckets and the index alone; it returns on, and
\* only on, an accepted input.
C15_OnlyValidInputReturns ==
    [][ /\ pc = "dispatch" => decision \in {"yes", "no", "skip", "stop"}
        /\ pc = "input" =>
              /\ Choice(line') \in ValidInputs =>
                    /\ pc' = "dispatch"
                    /\ decision' \in {"yes", "no", "skip", "stop"}
              /\ Choice(line') \notin ValidInputs =>
                    /\ pc' = "input"
                    /\ "invalid_choice" \in console'
                    /\ UNCHANGED << decisions, i, decision >>
        /\ (pc' = "dispatch" /\ pc # "dispatch") =>
              /\ pc = "input"
              /\ Choice(line') \in ValidInputs
      ]_vars

C15_Witness ==
    /\ pc = "dispatch"
    /\ "invalid_choice" \in console
    /\ line = << "Q", "U", "I", "T" >>
    /\ decision = "stop"
    /\ i = 2

\* the number of suggestions recorded in the three buckets
BucketTotal ==
    Len(decisions.accepted) + Len(decisions.rejected) + Len(decisions.skipped)

C17_GenerateSaveAppend ==
    [][ /\ \A n \in Range(decisions.accepted) : \E f \in prompt_files : f.agent = n
        /\ (pc' = "save_agent_prompt" /\ pc # "save_agent_prompt") =>
              /\ pc = "dispatch" /\ decision = "yes"
              /\ generate_log' = Append(generate_log, generate_log'[Len(generate_log')])
              /\ generate_log'[Len(generate_log')].site = "system_prompt"
              /\ UNCHANGED << prompt_files, decisions >>
        /\ pc = "save_agent_prompt" =>
              /\ "prompt" \in write_failed' =>
                    /\ prompt_files' = prompt_files
                    /\ i \notin UNION {Range(decisions'[b]) : b \in Buckets}
              /\ "prompt" \notin write_failed' =>
                    /\ [agent |-> i, content |-> prompt_content] \in prompt_files'
                    /\ decisions' = [decisions EXCEPT !.accepted = Append(@, i)]
      ]_vars

\* C18: save_summary is called at most once in a run of the iterative
\* script, and only once the review loop is over, by exhaustion or by
\* 'stop'; a run that finds no file, or gets an empty suggestion list,
\* returns with nothing reviewed, no summary and no prompt file, and the
\* process ends with status 0.
C18_SummaryOnceAfterLoop ==
    [][ /\ save_summary_calls <= 1
        /\ save_summary_calls' # save_summary_calls =>
              /\ script = "iterative"
              /\ save_summary_calls = 0
              /\ presented # <<>>
              /\ \/ decision = "stop" /\ presented[Len(presented)] = i
                 \/ /\ decision \in {"yes", "no", "skip"}
                    /\ i = Len(suggestions) + 1
                    /\ presented[Len(presented)] = Len(suggestions)
              /\ pc' = "exited"
        /\ ( /\ script = "iterative"
             /\ \/ pc = "run" /\ total' = 0
                \/ pc = "suggest" /\ suggestions' = <<>> )
           => /\ pc' = "exited"
              /\ exit_code' = "0"
              /\ uncaught' = "none"
              /\ presented' = <<>> /\ decided' = <<>>
              /\ save_summary_calls' = 0
              /\ summary_file' = NoSummary
              /\ prompt_files' = {}
              /\ write_failed' = {}
        /\ pc = "exited" => UNCHANGED << save_summary_calls, summary_file, prompt_files >>
      ]_vars

C18_Witness ==
    /\ script = "iterative"
    /\ save_summary_calls = 1
    /\ decision = "skip"
    /\ Len(suggestions) = 2
    /\ presented = << 1, 2 >>
    /\ summary_file.written

C18_WitnessNothingToReview ==
    /\ script = "iterative"
    /\ pc = "exited"
    /\ total = 1
    /\ response_text # <<>>
    /\ suggestions = <<>>
    /\ exit_code = "0"

\* b = pre \o a \o post for some pre and post
Contains(b, a) ==
    \E pre \in 0..Len(b) : \E post \in 0..Len(b) :
       /\ pre + Len(a) + post = Len(b)
       /\ \A k \in 1..Len(a) : b[pre + k] = a[k]

StartupPcs == {"main", "check_ollama", "check_model", "continue_anyway"}

\* C19: in both scripts the run starts only after the checks, in this
\* order: the directory is a directory, ollama.list succeeds, and then
\* either some listed model name contains the model name, or the answer to
\* "Continue anyway?" is 'y' in either case, or the model check itself
\* raised; in every other case the process ends with status 1 with nothing
\* discovered, generated or written.
C19_RunOnlyAfterChecks ==
    [][ /\ pc \in StartupPcs =>
              /\ total = 0 /\ generate_log = <<>>
              /\ prompt_files = {} /\ summary_file = NoSummary
              /\ findings_file' = findings_file /\ batch_prompts' = batch_prompts
              /\ pc' \in StartupPcs \cup {"run", "exited"}
              /\ pc' = "exited" =>
                    /\ exit_code' = "1"
                    /\ UNCHANGED << total, generate_log, prompt_files, summary_file,
                                    write_failed >>
        /\ (pc' = "check_ollama" /\ pc # pc') => pc = "main"
        /\ (pc' = "check_model" /\ pc # pc') => pc = "check_ollama"
        /\ (pc' = "continue_anyway" /\ pc # pc') =>
              /\ pc = "check_model"
              /\ \A n \in DOMAIN model_names' : ~Contains(model_names'[n], args_model)
        /\ (pc' = "run" /\ pc # pc') =>
              \/ /\ pc = "check_model"
                 /\ \E n \in DOMAIN model_names' : Contains(model_names'[n], args_model)
              \/ /\ pc = "check_model"
                 /\ "could_not_verify_model" \in console'
              \/ /\ pc = "continue_anyway"
                 /\ line' \in { <<"y">>, <<"Y">> }
        /\ (pc = "continue_anyway" /\ line' \notin { <<"y">>, <<"Y">> } /\ line' # line) =>
              pc' = "exited"
        /\ (pc = "check_model" /\ model_names' # <<>>
              /\ \E n \in DOMAIN model_names' : Contains(model_names'[n], args_model)) =>
              pc' = "run"
      ]_vars

C19_Witness ==
    /\ pc = "suggest"
    /\ "model_not_found" \in console
    /\ model_names = << << "L", "3" >>, << "l" >> >>
    /\ line = << "Y" >>
    /\ total = 1

C19_WitnessRefused ==
    /\ pc = "exited"
    /\ exit_code = "1"
    /\ "model_not_found" \in console
    /\ line = << " ", "y" >>

\* the agent name as the file name spells it, character by character
RECURSIVE Slug(_)
Slug(name) ==
    IF name = <<>> THEN <<>>
    ELSE LET c == Head(name)
             d == IF c \in {" ", "_"} THEN "-"
                  ELSE IF c = "A" THEN "a" ELSE c
         IN  (IF d \in {"a", "b", "7", "-"} THEN << d >> ELSE <<>>) \o Slug(Tail(name))

\* C12: save_agent_prompt writes the prompt to
\* findings/system-prompts/orchestration/<agent-name>.md when the agent's
\* type is exactly 'orchestration' and to findings/system-prompts/action/
\* <agent-name>.md for every other type, <agent-name> being the name in
\* lower case with spaces and underscores turned into '-' and every other
\* character that is neither alphanumeric nor '-' removed.
C12_PromptPath ==
    (fn = "save_agent_prompt" /\ output_file.filename # <<>>) =>
        /\ pc \in {"returned", "raised"}
        /\ agent.type # KeyMissing
        /\ output_file.dir =
              IF agent.type = "orchestration"
              THEN << "findings", "system-prompts", "orchestration" >>
              ELSE << "findings", "system-prompts", "action" >>
        /\ output_file.filename = Slug(agent.name) \o << ".md" >>
        /\ pc = "returned" => uncaught = "none"

C12_Witness ==
    /\ fn = "save_agent_prompt"
    /\ pc = "returned"
    /\ agent.type = "Orchestration"
    /\ agent.name = << "A", "_", "/" >>
    /\ output_file = [dir |-> << "findings", "system-prompts", "action" >>,
                      filename |-> << "a", "-", ".md" >>]

Expected ==
    [b \in FileTypes |->
       CASE b = "json" ->
              { File(<<>>, << "my_", "agent", ".", "json" >>),
                File(<< "agents" >>, << "my_", "agent", ".", "json" >>) }
         [] b = "yaml" ->
              { File(<<>>, << "x", ".", "agent", ".", "YAML" >>) }
         [] b = "md" ->
              { File(<<>>, << "prompt", ".", "md" >>),
                File(<<>>, << "x_", "system", "_y", ".", "md" >>) }
         [] b = "txt" ->
              { File(<< "agents" >>, << "notes", ".", "txt" >>),
                File(<< "src", "prompts" >>, << "p", ".", "TXT" >>) }
         [] b = "other" ->
              { File(<<>>, << "x", ".", "agent", "." >>),
                File(<<>>, << "agent", ".", "yml" >>),
                File(<< "agents", "sub" >>, << "a", ".", "py" >>),
                File(<< ".claude" >>, << "settings" >>) }]

\* C14: discover_agents returns only regular files of the directory that
\* match one of the patterns, each in the bucket of its lower-cased
\* extension when that is json, yaml, md or txt and in 'other' when not; no
\* directory and no file matching no pattern is in a bucket.
C14_OnlyMatchingFiles ==
    (fn = "discover_agents" /\ pc # "call") =>
        /\ pc = "returned"
        /\ DOMAIN found_files = FileTypes
        /\ \A b \in FileTypes : \A n \in DOMAIN found_files[b] :
              /\ found_files[b][n] \in tree
              /\ found_files[b][n].is_file
              /\ found_files[b][n] \in Expected[b]

C14_Witness ==
    /\ fn = "discover_agents"
    /\ pc = "returned"
    /\ tree = { File(<<>>, << "x", ".", "agent", ".", "YAML" >>),
                Dir(<<>>, << "dir_", "agent", ".", "json" >>) }
    /\ found_files = [NoFiles EXCEPT !.yaml = << File(<<>>, << "x", ".", "agent", ".", "YAML" >>) >>]

====
